---- MODULE Spec2Model ----
(***************************************************************************)
(* Model of NewsScraper (src/News_feed.py, third revision, lines 644-864): *)
(* the feed loop, record assembly, date bucketing, deduplication, the      *)
(* SQLite table news_articles and the CSV snapshot.                        *)
(*                                                                         *)
(* Text is a sequence of one-character strings, so that str.strip() is     *)
(* computed and not assumed.  A date string is a sequence of tokens.       *)
(* Time is counted in ticks, TicksPerDay ticks to the day; an instant is   *)
(* a UTC tick count, a wall-clock reading is instant + UTC offset.         *)
(***************************************************************************)
EXTENDS Integers, Sequences, FiniteSets, TLC

VARIABLES
    pc,              \* position of the process in run()
    feedIdx,         \* scrape_all_feeds: index of the next feed of rss_feeds
    all_entries,     \* scrape_all_feeds: the Batch being accumulated
    outcome,         \* what the network and the parser gave for the last feed
    processed,       \* indices of the feeds parse_feed was called for, in order
    all_failed,      \* parse_feed reported an error for each of them
    df_cleaned,      \* run(): the deduplicated Batch
    country_counts,  \* _store_in_db: country -> count
    value_counts,    \* save_to_csv: country -> count
    store,           \* table news_articles of news.db, rows in id order
    csv,             \* rows of news_data.csv
    served,          \* number of feed elements served so far (bounded)
    now,             \* the clock: current instant, in ticks (UTC)
    localOffset,     \* UTC offset of the machine's local time zone, in ticks
    df_twice,        \* remove_duplicates applied to its own result
    published_date,  \* calculate_duration: the argument
    dateutil_out,    \* calculate_duration: what parser.parse gives
    strptime_out,    \* calculate_duration: what strptime gives, per format
    pub_date,        \* calculate_duration: the parsed timestamp, if any
    duration,        \* calculate_duration: the returned label
    localOffset2,    \* UTC offset of the local time zone of a second evaluator
    duration2,       \* the label the second evaluator returns
    sqlite_error,    \* _store_in_db: the records whose insert raised
    writers,         \* the runs that execute _store_in_db on the same news.db
    lock             \* the connection that holds the write lock of news.db

vars == << pc, feedIdx, all_entries, outcome, processed, all_failed, df_cleaned,
           country_counts, value_counts, store, csv, served, now, localOffset,
           df_twice, published_date, dateutil_out, strptime_out, pub_date,
           duration, localOffset2, duration2, sqlite_error, writers, lock >>

pipeVars == << feedIdx, all_entries, outcome, processed, all_failed, df_cleaned,
               country_counts, value_counts, store, csv, served, sqlite_error >>
dateVars == << published_date, dateutil_out, strptime_out, pub_date, duration >>
pairVars == << localOffset2, duration2 >>
writerVars == << writers, lock >>

-----------------------------------------------------------------------------
(* Bounds of the model *)

MaxItems == 3          \* feed elements served over a whole behaviour of Spec
MaxDocItems == 2       \* feed elements served in the run of SpecOneRun
MaxClockJumps == 1     \* times the clock jumps ahead between runs
MaxLen == 3            \* length of a Batch given directly to remove_duplicates
MaxElapsedDays == 885  \* range of the evaluation instant, in days
NumWriters == 2        \* runs that execute _store_in_db at the same time
MaxWriterBatch == 2    \* length of the Batch of each of these runs
TicksPerDay == 2       \* resolution of the clock

-----------------------------------------------------------------------------
(* Text and optional values *)

None == << >>
Some(x) == << x >>
IsNone(o) == Len(o) = 0

Blank == " "

RECURSIVE LStrip(_)
LStrip(s) == IF s # << >> /\ Head(s) = Blank THEN LStrip(Tail(s)) ELSE s

RECURSIVE RStrip(_)
RStrip(s) ==
    IF s # << >> /\ s[Len(s)] = Blank THEN RStrip(SubSeq(s, 1, Len(s) - 1)) ELSE s

\* str.strip()
Strip(s) == RStrip(LStrip(s))

-----------------------------------------------------------------------------
(* clean_date_string and calculate_duration *)

WeekdayTokens == {"Mon,", "Lun,"}
TzAbbreviations == {"EST", "EDT", "CST", "CDT", "MST", "MDT", "PST", "PDT"}

RECURSIVE DropBlanks(_)
DropBlanks(toks) ==
    IF toks # << >> /\ Head(toks) = Blank THEN DropBlanks(Tail(toks)) ELSE toks

\* re.sub(r'^[A-Za-z]{2,9},\s*', '', date_str)
StripWeekday(toks) ==
    IF toks # << >> /\ Head(toks) \in WeekdayTokens
    THEN DropBlanks(Tail(toks))
    ELSE toks

\* re.sub(r'\b(?:EST|...|PDT)\b', '', date_str)
StripTz(toks) == SelectSeq(toks, LAMBDA t : t \notin TzAbbreviations)

\* ' '.join(date_str.split()).strip(): the non-blank tokens, singly spaced
Collapse(toks) == SelectSeq(toks, LAMBDA t : t # Blank)

clean_date_string(date_str) ==
    IF date_str = << >> THEN << >>
    ELSE Collapse(StripTz(StripWeekday(date_str)))

\* The explicit patterns date_formats, in their order
NumFormats == 11
Formats == 1 .. NumFormats

\* for fmt in date_formats: try strptime ... break / except ValueError: continue
RECURSIVE FirstFormat(_, _)
FirstFormat(sp, k) ==
    IF k > NumFormats THEN None
    ELSE IF ~IsNone(sp[k]) THEN sp[k]
    ELSE FirstFormat(sp, k + 1)

\* as DeltaDays, with now = datetime.now() for every timestamp
DeltaDays_local(p, now_, local_) ==
    ((now_ + local_) - p.wall) \div TicksPerDay

\* now = datetime.now(pub_date.tzinfo) if pub_date.tzinfo else datetime.now()
\* delta = now - pub_date ; delta.days
DeltaDays(p, now_, local_) ==
    LET wallNow == IF IsNone(p.off) THEN now_ + local_ ELSE now_ + p.off[1]
    IN  (wallNow - p.wall) \div TicksPerDay

\* as Bucket, with < for <= in the week test
Bucket_strict(days) ==
    IF days = 0 THEN "Today"
    ELSE IF days < 7 THEN "This Week"
    ELSE IF days <= 30 THEN "This Month"
    ELSE IF days <= 365 THEN "1 Year Ago"
    ELSE IF days <= 730 THEN "2 Years Ago"
    ELSE "Older"

\* as Bucket, with the elapsed days floored at zero
Bucket_floored(days) ==
    IF days <= 0 THEN "Today"
    ELSE IF days <= 7 THEN "This Week"
    ELSE IF days <= 30 THEN "This Month"
    ELSE IF days <= 365 THEN "1 Year Ago"
    ELSE IF days <= 730 THEN "2 Years Ago"
    ELSE "Older"

Bucket(days) ==
    IF days = 0 THEN "Today"
    ELSE IF days <= 7 THEN "This Week"
    ELSE IF days <= 30 THEN "This Month"
    ELSE IF days <= 365 THEN "1 Year Ago"
    ELSE IF days <= 730 THEN "2 Years Ago"
    ELSE "Older"

\* as ParsedDate, without the loop over date_formats
ParsedDate_dateutil(date_str, du, sp) ==
    IF date_str = << >> THEN None
    ELSE IF clean_date_string(date_str) = << >> THEN None
    ELSE du

\* The timestamp calculate_duration ends up with: dateutil's, else the first
\* explicit pattern's, else none
ParsedDate(date_str, du, sp) ==
    IF date_str = << >> THEN None
    ELSE IF clean_date_string(date_str) = << >> THEN None
    ELSE IF ~IsNone(du) THEN du
    ELSE FirstFormat(sp, 1)

\* as calculate_duration, without the test "if not pub_date": pub_date.tzinfo
\* of None raises
calculate_duration_unguarded(date_str, du, sp, now_, local_) ==
    LET p == ParsedDate(date_str, du, sp)
    IN  IF date_str = << >> \/ clean_date_string(date_str) = << >> THEN "Unknown"
        ELSE IF IsNone(p) THEN "AttributeError"
        ELSE Bucket(DeltaDays(p[1], now_, local_))

calculate_duration(date_str, du, sp, now_, local_) ==
    LET p == ParsedDate(date_str, du, sp)
    IN  IF IsNone(p) THEN "Unknown" ELSE Bucket(DeltaDays(p[1], now_, local_))

-----------------------------------------------------------------------------
(* The configuration and what a feed can serve *)

RSS_FEEDS ==
    << [country |-> "UK", source |-> "BBC",          url |-> "bbc"],
       [country |-> "UK", source |-> "The Guardian", url |-> "guardian"],
       [country |-> "US", source |-> "CNN",          url |-> "cnn"] >>

\* A parsed date: a wall-clock reading, and the UTC offset when one was recovered
Naive(w) == [wall |-> w, off |-> None]
Aware(w, o) == [wall |-> w, off |-> Some(o)]

PubWall == 2 * TicksPerDay      \* the wall-clock reading the date strings denote
\* a reading more than two years after every instant of evaluation
FutureWall == PubWall + ((MaxElapsedDays + 731) * TicksPerDay)
Offsets == {-1, 0, 1}

AllFail == [k \in Formats |-> None]
OnlyFormat(k, r) == [j \in Formats |-> IF j = k THEN Some(r) ELSE None]

\* A date string as the feeds write it, with what the two parsers make of its
\* cleaned form
DatedPub == [text |-> << "Mon,", Blank, "d1", Blank, "EST" >>,
             du |-> Some(Naive(PubWall)), sp |-> AllFail]
NoPub == [text |-> << >>, du |-> None, sp |-> AllFail]

\* An element of a feed document, as BeautifulSoup presents it: each tag is
\* absent (None) or present with its text; a link tag may carry an href
LinkText(t) == Some([href |-> None, text |-> t])
LinkHref(h, t) == Some([href |-> Some(h), text |-> t])

Element(title, link, summary, pub, lang, raises) ==
    [title_tag |-> title, link_tag |-> link, summary_tag |-> summary,
     pub_date_tag |-> pub, detect |-> lang, raises |-> raises]

ElemA == Element(Some(<< Blank, "a", Blank >>), LinkText(<< Blank, "x", Blank >>),
                 Some(<< "<p>", "s", "&amp;", "</p>" >>), Some(DatedPub),
                 Some("en"), FALSE)
ElemB == Element(Some(<< "b" >>), LinkHref(<< "x" >>, << "y" >>),
                 None, None, None, FALSE)
ElemW == Element(Some(<< "a" >>), LinkHref(<< Blank >>, << "x" >>),
                 None, None, Some("en"), FALSE)
ElemNoTitle == Element(None, LinkText(<< "x" >>), None, None, None, FALSE)
ElemBlankTitle == Element(Some(<< Blank >>), None, None, None, None, FALSE)
ElemBlankLink == Element(Some(<< "a" >>), LinkText(<< Blank >>),
                         None, None, Some("en"), FALSE)
ElemEmptyHref == Element(Some(<< "a" >>), LinkHref(<< >>, << "x" >>),
                         None, None, Some("en"), FALSE)
ElemRaises == Element(Some(<< "a" >>), LinkText(<< "x" >>), None, None, None, TRUE)

Elements == {ElemA, ElemB, ElemW, ElemNoTitle, ElemBlankTitle, ElemBlankLink,
             ElemEmptyHref, ElemRaises}

SeqsUpTo(S, n) == UNION {[1 .. k -> S] : k \in 0 .. n}

\* What the server does with a request: it answers with a status, the
\* transport fails (requests raises), or it stays silent
Answered(st) == [kind |-> "ok", status |-> st]
Raised == [kind |-> "raises", status |-> 0]
Silent == [kind |-> "silent", status |-> 0]

\* What one call of parse_feed meets: what the server does with the request of
\* is_url_accessible (probe) and with the second request (response, status;
\* the status is not looked at), the parser, and the document's "item" and
\* "entry" elements
Unreachable == [probe |-> Answered(503), response |-> "none", status |-> 0,
                soup |-> "none", item |-> << >>, entry |-> << >>]
ProbeRaises == [probe |-> Raised, response |-> "none", status |-> 0,
                soup |-> "none", item |-> << >>, entry |-> << >>]
ProbeSilent == [probe |-> Silent, response |-> "none", status |-> 0,
                soup |-> "none", item |-> << >>, entry |-> << >>]
GetRaises == [probe |-> Answered(200), response |-> "raises", status |-> 0,
              soup |-> "none", item |-> << >>, entry |-> << >>]
GetSilent == [probe |-> Answered(200), response |-> "silent", status |-> 0,
              soup |-> "none", item |-> << >>, entry |-> << >>]
SoupRaises == [probe |-> Answered(200), response |-> "ok", status |-> 200,
               soup |-> "raises", item |-> << >>, entry |-> << >>]
Document(st, it, en) == [probe |-> Answered(200), response |-> "ok",
                         status |-> st, soup |-> "ok", item |-> it, entry |-> en]

Failures == {Unreachable, GetRaises, SoupRaises}
AnyFailures == Failures \cup {ProbeRaises, ProbeSilent, GetSilent}

\* The timeout argument of the two calls of requests.get
ProbeTimeout == Some(10)
FetchTimeout == None

\* requests.get(url, headers=..., timeout=t): a silent server makes the call
\* raise requests.Timeout when a timeout is given, and block when none is
RequestsGet(kind, timeout) ==
    IF kind = "silent"
    THEN (IF IsNone(timeout) THEN "blocks" ELSE "raises")
    ELSE kind

\* return response.status_code == 200 ; except requests.RequestException:
\* return False
is_url_accessible(out) ==
    /\ RequestsGet(out.probe.kind, ProbeTimeout) = "ok"
    /\ out.probe.status = 200

\* response = requests.get(feed["url"], headers=self.headers) never returns
Blocks(out) ==
    /\ is_url_accessible(out)
    /\ RequestsGet(out.response, FetchTimeout) = "blocks"

-----------------------------------------------------------------------------
(* clean_summary, parse_feed, scrape_all_feeds *)

MarkupTokens == {"<p>", "</p>"}
Unescape(t) == IF t = "&amp;" THEN "&" ELSE t

\* BeautifulSoup(summary).get_text(separator=" ", strip=True), html.unescape
clean_summary(summary) ==
    LET text == SelectSeq(summary, LAMBDA t : t \notin MarkupTokens)
    IN  [i \in 1 .. Len(text) |-> Unescape(text[i])]

\* link_tag["href"] if link_tag and link_tag.has_attr("href")
\*   else link_tag.text.strip() if link_tag else ""
LinkOf(e) ==
    IF IsNone(e.link_tag) THEN << >>
    ELSE IF ~IsNone(e.link_tag[1].href) THEN e.link_tag[1].href[1]
    ELSE Strip(e.link_tag[1].text)

TitleOf(e) == IF IsNone(e.title_tag) THEN << >> ELSE Strip(e.title_tag[1])

SummaryOf(e) ==
    IF IsNone(e.summary_tag) THEN << >> ELSE clean_summary(e.summary_tag[1])

PubOf(e) == IF IsNone(e.pub_date_tag) THEN NoPub ELSE e.pub_date_tag[1]

\* pub_date_tag.text.strip() if pub_date_tag else ""
PublishedOf(e) == Strip(PubOf(e).text)

\* detect(text_for_lang) if text_for_lang else "unknown" ; except: "unknown"
LanguageOf(e) ==
    IF TitleOf(e) = << >> /\ SummaryOf(e) = << >> THEN "unknown"
    ELSE IF IsNone(e.detect) THEN "unknown"
    ELSE e.detect[1]

\* as Keeps, with "or" for "and"
Keeps_either(title, link) == title # << >> \/ link # << >>

\* if title and link:
Keeps(title, link) == title # << >> /\ link # << >>

\* The body of the loop over items: the Article of one element, if any
Assemble(e, feed, now_, local_) ==
    IF Keeps(TitleOf(e), LinkOf(e))
    THEN Some([Title |-> TitleOf(e),
               Summary |-> SummaryOf(e),
               Published |-> PublishedOf(e),
               Link |-> LinkOf(e),
               Source |-> feed.source,
               Country |-> feed.country,
               Language |-> LanguageOf(e),
               Duration |-> calculate_duration(PublishedOf(e), PubOf(e).du,
                                               PubOf(e).sp, now_, local_)])
    ELSE None

\* for item in items: ... ; an exception leaves the loop, and parse_feed
\* returns the entries appended so far
RECURSIVE ExtractItems(_, _, _, _, _)
ExtractItems(items, feed, now_, local_, entries) ==
    IF items = << >> THEN entries
    ELSE IF Head(items).raises THEN entries
    ELSE ExtractItems(Tail(items), feed, now_, local_,
                      entries \o Assemble(Head(items), feed, now_, local_))

\* as ItemsOf, with soup.find_all(["item", "entry"])
ItemsOf_both(out) == out.item \o out.entry

\* items = soup.find_all("item") or soup.find_all("entry")
ItemsOf(out) == IF out.item # << >> THEN out.item ELSE out.entry

parse_feed(feed, out, now_, local_) ==
    IF ~is_url_accessible(out) THEN << >>
    ELSE IF RequestsGet(out.response, FetchTimeout) = "raises"
            \/ out.soup = "raises" THEN << >>
    ELSE ExtractItems(ItemsOf(out), feed, now_, local_, << >>)

\* What parse_feed reports as an error: the feed is not accessible, the second
\* request or the parser raises, or the extraction of an element raises
SourceFailed(out) ==
    \/ ~is_url_accessible(out)
    \/ RequestsGet(out.response, FetchTimeout) = "raises"
    \/ out.soup = "raises"
    \/ \E k \in 1 .. Len(ItemsOf(out)) : ItemsOf(out)[k].raises

\* as NextFeed, when an error of parse_feed ends the loop
NextFeed_abort(idx, out) ==
    IF SourceFailed(out) THEN Len(RSS_FEEDS) + 1 ELSE idx + 1

\* The loop of scrape_all_feeds goes on to the next feed whatever parse_feed met
NextFeed(idx, out) == idx + 1

-----------------------------------------------------------------------------
(* remove_duplicates *)

SameKey(a, b) == a.Title = b.Title /\ a.Link = b.Link

\* df.drop_duplicates(subset=["Title", "Link"]): the first of each key stays
RECURSIVE DropDuplicates(_, _)
DropDuplicates(entries, kept) ==
    IF entries = << >> THEN kept
    ELSE IF \E i \in 1 .. Len(kept) : SameKey(kept[i], Head(entries))
         THEN DropDuplicates(Tail(entries), kept)
         ELSE DropDuplicates(Tail(entries), Append(kept, Head(entries)))

\* as DropDuplicates with keep="last"
RECURSIVE DropDuplicatesLast(_)
DropDuplicatesLast(entries) ==
    IF entries = << >> THEN << >>
    ELSE IF \E i \in 2 .. Len(entries) : SameKey(entries[i], Head(entries))
         THEN DropDuplicatesLast(Tail(entries))
         ELSE << Head(entries) >> \o DropDuplicatesLast(Tail(entries))

remove_duplicates_last(entries) == DropDuplicatesLast(entries)

\* as remove_duplicates, dropping only the first duplicate it meets
RECURSIVE DropOneDuplicate(_, _)
DropOneDuplicate(entries, kept) ==
    IF entries = << >> THEN kept
    ELSE IF \E i \in 1 .. Len(kept) : SameKey(kept[i], Head(entries))
         THEN kept \o Tail(entries)
         ELSE DropOneDuplicate(Tail(entries), Append(kept, Head(entries)))

remove_duplicates_once(entries) == DropOneDuplicate(entries, << >>)

remove_duplicates(entries) == DropDuplicates(entries, << >>)

-----------------------------------------------------------------------------
(* _store_in_db and save_to_csv *)

NoCounts == [c \in {} |-> 0]

\* as CountOne, with country_counts.get(country, 1)
CountOne_from1(counts, country) ==
    [c \in DOMAIN counts \cup {country} |->
        IF c = country
        THEN (IF c \in DOMAIN counts THEN counts[c] ELSE 1) + 1
        ELSE counts[c]]

\* country_counts[country] = country_counts.get(country, 0) + 1
CountOne(counts, country) ==
    [c \in DOMAIN counts \cup {country} |->
        IF c = country
        THEN (IF c \in DOMAIN counts THEN counts[c] ELSE 0) + 1
        ELSE counts[c]]

RECURSIVE CountCountries(_, _)
CountCountries(entries, counts) ==
    IF entries = << >> THEN counts
    ELSE CountCountries(Tail(entries), CountOne(counts, Head(entries).Country))

\* df['Country'].value_counts().to_dict()
ValueCounts(df) ==
    [c \in {df[i].Country : i \in 1 .. Len(df)} |->
        Cardinality({i \in 1 .. Len(df) : df[i].Country = c})]

Row(entry, n) ==
    [Title |-> entry.Title, Summary |-> entry.Summary,
     Published |-> entry.Published, Link |-> entry.Link,
     Source |-> entry.Source, Country |-> entry.Country,
     Language |-> entry.Language, NoofArticles |-> n,
     Duration |-> entry.Duration]

\* as InsertOrIgnore, on a table whose Link column is not UNIQUE
Insert_plain(table, row) == Append(table, row)

\* as InsertOrIgnore, with INSERT OR REPLACE
Insert_replace(table, row) ==
    Append(SelectSeq(table, LAMBDA r : r.Link # row.Link), row)

\* as InsertOrIgnore, with ON CONFLICT(Link) DO UPDATE: the stored row takes
\* the values of the new one
Insert_update(table, row) ==
    IF \E i \in 1 .. Len(table) : table[i].Link = row.Link
    THEN [i \in 1 .. Len(table) |->
            IF table[i].Link = row.Link THEN row ELSE table[i]]
    ELSE Append(table, row)

\* INSERT OR IGNORE INTO news_articles ..., Link TEXT UNIQUE
InsertOrIgnore(table, row) ==
    IF \E i \in 1 .. Len(table) : table[i].Link = row.Link
    THEN table
    ELSE Append(table, row)

\* The second loop of _store_in_db; the inserts of the records numbered in
\* failing raise sqlite3.Error, which is printed and passed over
RECURSIVE InsertAll(_, _, _, _, _)
InsertAll(table, entries, counts, k, failing) ==
    IF k > Len(entries) THEN table
    ELSE InsertAll(IF k \in failing THEN table
                   ELSE InsertOrIgnore(table,
                            Row(entries[k], counts[entries[k].Country])),
                   entries, counts, k + 1, failing)

\* as InsertAll, with the try around the loop: the first error ends the loop
RECURSIVE InsertAll_abort(_, _, _, _, _)
InsertAll_abort(table, entries, counts, k, failing) ==
    IF k > Len(entries) \/ k \in failing THEN table
    ELSE InsertAll_abort(InsertOrIgnore(table,
                             Row(entries[k], counts[entries[k].Country])),
                         entries, counts, k + 1, failing)

_store_in_db_abort(table, entries, failing) ==
    InsertAll_abort(table, entries, CountCountries(entries, NoCounts), 1, failing)

_store_in_db(table, entries, failing) ==
    InsertAll(table, entries, CountCountries(entries, NoCounts), 1, failing)

\* df['NoOfArticles'] = df['Country'].map(country_counts) ; df.to_csv(...)
CsvRows(df) ==
    [i \in 1 .. Len(df) |->
        [Title |-> df[i].Title, Summary |-> df[i].Summary,
         Published |-> df[i].Published, Link |-> df[i].Link,
         Source |-> df[i].Source, Country |-> df[i].Country,
         Language |-> df[i].Language, Duration |-> df[i].Duration,
         NoOfArticles |-> ValueCounts(df)[df[i].Country]]]

-----------------------------------------------------------------------------
(* The pipeline: one process per run of the script *)

NowStart == PubWall

\* No run is inside _store_in_db
NoWriters == << >>
ClockJump == 8 * TicksPerDay

Init ==
    /\ pc = "idle"
    /\ feedIdx = 1
    /\ all_entries = << >>
    /\ outcome = None
    /\ processed = << >>
    /\ all_failed = TRUE
    /\ df_cleaned = << >>
    /\ country_counts = NoCounts
    /\ value_counts = NoCounts
    /\ store = << >>
    /\ csv = << >>
    /\ served = 0
    /\ now = NowStart
    /\ localOffset = 0
    /\ df_twice = << >>
    /\ published_date = << >>
    /\ dateutil_out = None
    /\ strptime_out = AllFail
    /\ pub_date = None
    /\ duration = "Unknown"
    /\ localOffset2 = 0
    /\ duration2 = "Unknown"
    /\ sqlite_error = {}
    /\ writers = NoWriters
    /\ lock = 0

NotRunning == pc \in {"idle", "finished", "crashed"}

\* Time passes between two runs
Tick ==
    /\ NotRunning
    /\ now < NowStart + MaxClockJumps * ClockJump
    /\ now' = now + ClockJump
    /\ UNCHANGED << pc, pipeVars, localOffset, df_twice, dateVars, pairVars,
                    writerVars >>

\* python News_feed.py: NewsScraper(RSS_FEEDS), _init_db (CREATE TABLE IF NOT
\* EXISTS leaves an existing table alone), run() up to the loop over the feeds
Start ==
    /\ NotRunning
    /\ pc' = "scrape"
    /\ feedIdx' = 1
    /\ all_entries' = << >>
    /\ outcome' = None
    /\ processed' = << >>
    /\ all_failed' = TRUE
    /\ df_cleaned' = << >>
    /\ country_counts' = NoCounts
    /\ value_counts' = NoCounts
    /\ sqlite_error' = {}
    /\ UNCHANGED << store, csv, served, now, localOffset, df_twice, dateVars,
                    pairVars, writerVars >>

\* One iteration of the loop of scrape_all_feeds: parse_feed and extend; a
\* call of parse_feed that blocks in its request leaves the run where it is
Scrape(out) ==
    /\ outcome' = Some(out)
    /\ processed' = Append(processed, feedIdx)
    /\ IF Blocks(out)
       THEN /\ pc' = "blocked"
            /\ UNCHANGED << all_entries, all_failed, feedIdx, served >>
       ELSE /\ all_entries' =
                  all_entries \o parse_feed(RSS_FEEDS[feedIdx], out, now,
                                            localOffset)
            /\ all_failed' = (all_failed /\ SourceFailed(out))
            /\ feedIdx' = NextFeed(feedIdx, out)
            /\ served' = served + Len(out.item) + Len(out.entry)
            /\ pc' = IF NextFeed(feedIdx, out) > Len(RSS_FEEDS)
                     THEN "dedup" ELSE "scrape"
    /\ UNCHANGED << df_cleaned, country_counts, value_counts, store, csv, now,
                    localOffset, df_twice, sqlite_error, dateVars, pairVars,
                    writerVars >>

\* The feeds serve RSS documents with the common elements
CommonElements == {ElemA, ElemB, ElemW, ElemBlankTitle, ElemRaises}

ScrapeFeed ==
    /\ pc = "scrape"
    /\ \/ \E out \in Failures : Scrape(out)
       \/ \E it \in SeqsUpTo(CommonElements, MaxItems - served) :
             Scrape(Document(200, it, << >>))

\* The feeds serve any document, with any status
ScrapeAnyFeed ==
    /\ pc = "scrape"
    /\ \/ \E out \in AnyFailures : Scrape(out)
       \/ \E it \in SeqsUpTo(Elements, MaxDocItems - served) :
             \E en \in SeqsUpTo(Elements, MaxDocItems - served - Len(it)) :
                \E st \in {200, 503} : Scrape(Document(st, it, en))

\* df_cleaned = self.remove_duplicates(entries)
RemoveDuplicates ==
    /\ pc = "dedup"
    /\ df_cleaned' = remove_duplicates(all_entries)
    /\ pc' = "store"
    /\ UNCHANGED << feedIdx, all_entries, outcome, processed, all_failed,
                    country_counts, value_counts, store, csv, served, now,
                    localOffset, df_twice, sqlite_error, dateVars, pairVars,
                    writerVars >>

\* self._store_in_db(df_cleaned.to_dict("records"))
StoreInDb ==
    /\ pc = "store"
    /\ \E failing \in SUBSET (1 .. Len(df_cleaned)) :
          /\ store' = _store_in_db(store, df_cleaned, failing)
          /\ sqlite_error' = failing
    /\ country_counts' = CountCountries(df_cleaned, NoCounts)
    /\ pc' = "csv"
    /\ UNCHANGED << feedIdx, all_entries, outcome, processed, all_failed,
                    df_cleaned, value_counts, csv, served, now, localOffset,
                    df_twice, dateVars, pairVars, writerVars >>

\* df['Country'] on the frame pd.DataFrame([]) built from no entries, which has
\* no columns, raises KeyError
SaveRaises(df) == df = << >>

\* as SaveToCsv, with df.to_csv(filename, mode="a", ...)
SaveToCsv_append ==
    /\ pc = "csv"
    /\ IF SaveRaises(df_cleaned)
       THEN /\ pc' = "crashed"
            /\ UNCHANGED << value_counts, csv >>
       ELSE /\ pc' = "finished"
            /\ value_counts' = ValueCounts(df_cleaned)
            /\ csv' = csv \o CsvRows(df_cleaned)
    /\ UNCHANGED << feedIdx, all_entries, outcome, processed, all_failed,
                    df_cleaned, country_counts, store, served, now, localOffset,
                    df_twice, sqlite_error, dateVars, pairVars, writerVars >>

\* self.save_to_csv(df_cleaned); nothing in run() catches what it raises
SaveToCsv ==
    /\ pc = "csv"
    /\ IF SaveRaises(df_cleaned)
       THEN /\ pc' = "crashed"
            /\ UNCHANGED << value_counts, csv >>
       ELSE /\ pc' = "finished"
            /\ value_counts' = ValueCounts(df_cleaned)
            /\ csv' = CsvRows(df_cleaned)
    /\ UNCHANGED << feedIdx, all_entries, outcome, processed, all_failed,
                    df_cleaned, country_counts, store, served, now, localOffset,
                    df_twice, sqlite_error, dateVars, pairVars, writerVars >>

Next ==
    \/ Tick
    \/ Start
    \/ ScrapeFeed
    \/ RemoveDuplicates
    \/ StoreInDb
    \/ SaveToCsv

Spec == Init /\ [][Next]_vars

\* A single run of the script, on any documents
FirstStart == pc = "idle" /\ Start

NextOneRun ==
    \/ FirstStart
    \/ ScrapeAnyFeed
    \/ RemoveDuplicates
    \/ StoreInDb
    \/ SaveToCsv

SpecOneRun == Init /\ [][NextOneRun]_vars

-----------------------------------------------------------------------------
(* remove_duplicates on any Batch *)

Article(e, f) == Assemble(e, RSS_FEEDS[f], NowStart, 0)[1]

Articles == {Article(e, f) : e \in {ElemA, ElemB, ElemW}, f \in {1, 3}}

InitDedup ==
    /\ pc = "entries"
    /\ all_entries \in SeqsUpTo(Articles, MaxLen)
    /\ feedIdx = 1
    /\ outcome = None
    /\ processed = << >>
    /\ all_failed = TRUE
    /\ df_cleaned = << >>
    /\ country_counts = NoCounts
    /\ value_counts = NoCounts
    /\ store = << >>
    /\ csv = << >>
    /\ served = 0
    /\ now = NowStart
    /\ localOffset = 0
    /\ df_twice = << >>
    /\ published_date = << >>
    /\ dateutil_out = None
    /\ strptime_out = AllFail
    /\ pub_date = None
    /\ duration = "Unknown"
    /\ localOffset2 = 0
    /\ duration2 = "Unknown"
    /\ sqlite_error = {}
    /\ writers = NoWriters
    /\ lock = 0

DedupOnce ==
    /\ pc = "entries"
    /\ df_cleaned' = remove_duplicates(all_entries)
    /\ pc' = "once"
    /\ UNCHANGED << feedIdx, all_entries, outcome, processed, all_failed,
                    country_counts, value_counts, store, csv, served, now,
                    localOffset, df_twice, sqlite_error, dateVars, pairVars,
                    writerVars >>

DedupTwice ==
    /\ pc = "once"
    /\ df_twice' = remove_duplicates(df_cleaned)
    /\ pc' = "twice"
    /\ UNCHANGED << pipeVars, now, localOffset, dateVars, pairVars, writerVars >>

NextDedup == DedupOnce \/ DedupTwice

SpecDedup == InitDedup /\ [][NextDedup]_vars

-----------------------------------------------------------------------------
(* _store_in_db by several runs on the same news.db.  Each run has its own     *)
(* connection; its first INSERT opens a transaction and takes the write lock  *)
(* of the database file, which it holds until conn.commit().  An INSERT of     *)
(* another connection meanwhile waits, and raises sqlite3.OperationalError     *)
(* (database is locked) when the timeout of its connection runs out.          *)

WriterArticles == {Article(e, 1) : e \in {ElemA, ElemB, ElemW}}

\* The deduplicated Batches the runs come to _store_in_db with
WriterBatches ==
    {remove_duplicates(b) : b \in SeqsUpTo(WriterArticles, MaxWriterBatch)}

\* A run at the second loop of _store_in_db: its records, its counts, the
\* record it is at, the rows of its open transaction, the records whose insert
\* raised, and whether it has committed
Writer(entries) ==
    [entries |-> entries, counts |-> CountCountries(entries, NoCounts), k |-> 1,
     txn |-> << >>, raised |-> {}, done |-> FALSE]

InitWriters ==
    /\ pc = "writers"
    /\ writers \in [1 .. NumWriters -> {Writer(b) : b \in WriterBatches}]
    /\ lock = 0
    /\ store = << >>
    /\ feedIdx = 1
    /\ all_entries = << >>
    /\ outcome = None
    /\ processed = << >>
    /\ all_failed = TRUE
    /\ df_cleaned = << >>
    /\ country_counts = NoCounts
    /\ value_counts = NoCounts
    /\ csv = << >>
    /\ served = 0
    /\ sqlite_error = {}
    /\ now = NowStart
    /\ localOffset = 0
    /\ df_twice = << >>
    /\ published_date = << >>
    /\ dateutil_out = None
    /\ strptime_out = AllFail
    /\ pub_date = None
    /\ duration = "Unknown"
    /\ localOffset2 = 0
    /\ duration2 = "Unknown"

\* as CanWrite, on a database without a write lock
CanWrite_always(holder, w) == TRUE

\* A connection can write when no other connection holds the write lock
CanWrite(holder, w) == holder \in {0, w}

\* What a step inside _store_in_db leaves alone
WriterFrame ==
    UNCHANGED << pc, feedIdx, all_entries, outcome, processed, all_failed,
                 df_cleaned, country_counts, value_counts, csv, served,
                 sqlite_error, now, localOffset, df_twice, dateVars, pairVars >>

\* cursor.execute(INSERT OR IGNORE ...) of the next record: the statement
\* sees the committed rows and those of its own transaction
WriterInsert(w) ==
    LET me == writers[w]
        view == InsertOrIgnore(store \o me.txn,
                               Row(me.entries[me.k],
                                   me.counts[me.entries[me.k].Country]))
    IN  /\ pc = "writers"
        /\ ~me.done
        /\ me.k <= Len(me.entries)
        /\ CanWrite(lock, w)
        /\ lock' = w
        /\ writers' = [writers EXCEPT
              ![w].txn = SubSeq(view, Len(store) + 1, Len(view)),
              ![w].k = me.k + 1]
        /\ UNCHANGED store
        /\ WriterFrame

\* The same statement while another connection holds the lock until the
\* timeout runs out: except sqlite3.Error prints and goes on to the next record
WriterLocked(w) ==
    LET me == writers[w]
    IN  /\ pc = "writers"
        /\ ~me.done
        /\ me.k <= Len(me.entries)
        /\ ~CanWrite(lock, w)
        /\ writers' = [writers EXCEPT
              ![w].raised = me.raised \cup {me.k},
              ![w].k = me.k + 1]
        /\ UNCHANGED << store, lock >>
        /\ WriterFrame

\* conn.commit() ; conn.close()
WriterCommit(w) ==
    LET me == writers[w]
    IN  /\ pc = "writers"
        /\ ~me.done
        /\ me.k > Len(me.entries)
        /\ store' = store \o me.txn
        /\ lock' = IF lock = w THEN 0 ELSE lock
        /\ writers' = [writers EXCEPT ![w].txn = << >>, ![w].done = TRUE]
        /\ WriterFrame

NextWriters ==
    \/ \E w \in 1 .. NumWriters : WriterInsert(w)
    \/ \E w \in 1 .. NumWriters : WriterLocked(w)
    \/ \E w \in 1 .. NumWriters : WriterCommit(w)

SpecWriters == InitWriters /\ [][NextWriters]_vars

-----------------------------------------------------------------------------
(* calculate_duration on any string, at any instant *)

DateStrings ==
    { << >>,
      << Blank >>,
      << "Mon,", Blank, "EST" >>,
      DatedPub.text,
      << "junk", Blank, "Mon," >> }

\* parser.parse raises, or gives a naive or an aware timestamp
DateutilOutcomes ==
    {None, Some(Naive(PubWall)), Some(Naive(FutureWall))}
       \cup {Some(Aware(PubWall, o)) : o \in Offsets}

\* Patterns 1 and 3 hold %z and give an aware timestamp, the others a naive one
FormatResult(k, w) == IF k \in {1, 3} THEN Aware(w, 1) ELSE Naive(w)

StrptimeOutcomes ==
    {AllFail} \cup
    {OnlyFormat(k, FormatResult(k, PubWall)) : k \in Formats} \cup
    {[j \in Formats |->
        IF j = 5 THEN Some(Naive(PubWall))
        ELSE IF j = 8 THEN Some(Naive(PubWall - 40 * TicksPerDay))
        ELSE None]}

MaxNow == PubWall + (MaxElapsedDays * TicksPerDay)

InitDate ==
    /\ pc = "date"
    /\ published_date \in DateStrings
    /\ now \in 0 .. MaxNow
    /\ localOffset \in Offsets
    /\ dateutil_out = None
    /\ strptime_out = AllFail
    /\ pub_date = None
    /\ duration = "Unknown"
    /\ localOffset2 = 0
    /\ duration2 = "Unknown"
    /\ sqlite_error = {}
    /\ writers = NoWriters
    /\ lock = 0
    /\ feedIdx = 1
    /\ all_entries = << >>
    /\ outcome = None
    /\ processed = << >>
    /\ all_failed = TRUE
    /\ df_cleaned = << >>
    /\ country_counts = NoCounts
    /\ value_counts = NoCounts
    /\ store = << >>
    /\ csv = << >>
    /\ served = 0
    /\ df_twice = << >>

\* One call of calculate_duration; the parsers are asked only when the cleaned
\* string is not empty, and strptime only when parser.parse raised
Evaluate(du, sp) ==
    /\ dateutil_out' = du
    /\ strptime_out' = sp
    /\ pub_date' = ParsedDate(published_date, du, sp)
    /\ duration' = calculate_duration(published_date, du, sp, now, localOffset)
    /\ pc' = "dated"
    /\ UNCHANGED << pipeVars, now, localOffset, df_twice, published_date,
                    pairVars, writerVars >>

CalculateDuration ==
    /\ pc = "date"
    /\ IF clean_date_string(published_date) = << >>
       THEN Evaluate(None, AllFail)
       ELSE \E du \in DateutilOutcomes :
               IF IsNone(du)
               THEN \E sp \in StrptimeOutcomes : Evaluate(du, sp)
               ELSE Evaluate(du, AllFail)

NextDate == CalculateDuration

SpecDate == InitDate /\ [][NextDate]_vars

\* The same string is evaluated at the same instant by a second evaluator, on
\* a machine whose local time zone may be another; the parsers read the string
\* as they did for the first
CalculateDurationAgain ==
    /\ pc = "dated"
    /\ \E local2 \in Offsets :
          /\ localOffset2' = local2
          /\ duration2' = calculate_duration(published_date, dateutil_out,
                                             strptime_out, now, local2)
    /\ pc' = "dated twice"
    /\ UNCHANGED << pipeVars, now, localOffset, df_twice, dateVars, writerVars >>

NextDateTwice == CalculateDuration \/ CalculateDurationAgain

SpecDateTwice == InitDate /\ [][NextDateTwice]_vars

-----------------------------------------------------------------------------
(* Properties *)

Range(seq) == {seq[i] : i \in 1 .. Len(seq)}

\* An element carries a title that is not blank
HasTitle(e) ==
    /\ ~IsNone(e.title_tag)
    /\ \E k \in 1 .. Len(e.title_tag[1]) : e.title_tag[1][k] # Blank

\* An element carries a link: an href that is not empty, or, without href, a
\* text that is not blank
HasLink(e) ==
    /\ ~IsNone(e.link_tag)
    /\ IF IsNone(e.link_tag[1].href)
       THEN \E k \in 1 .. Len(e.link_tag[1].text) : e.link_tag[1].text[k] # Blank
       ELSE e.link_tag[1].href[1] # << >>

\* The Articles of the Batch that come from feed number f
FromFeed(batch, f) ==
    SelectSeq(batch, LAMBDA a : a.Source = RSS_FEEDS[f].source)

\* C1 (as stated): every Article of the Batch and every stored row has a Title
\* and a Link that are not empty after trimming
C1_TrimmedTitleAndLink ==
    /\ \A a \in Range(all_entries) : Strip(a.Title) # << >> /\ Strip(a.Link) # << >>
    /\ \A r \in Range(store) : Strip(r.Title) # << >> /\ Strip(r.Link) # << >>

\* C1 (amended): every Article of the Batch and every stored row has a trimmed,
\* non-empty Title and a non-empty Link (an href is taken untrimmed), and a feed
\* contributes no more Articles than it has elements with a title and a link
C1_NonEmptyTitleAndLink ==
    /\ \A a \in Range(all_entries) :
          a.Title # << >> /\ Strip(a.Title) = a.Title /\ a.Link # << >>
    /\ \A r \in Range(store) :
          r.Title # << >> /\ Strip(r.Title) = r.Title /\ r.Link # << >>
    /\ ~IsNone(outcome) =>
          Len(FromFeed(all_entries, processed[Len(processed)])) <=
             Cardinality({k \in 1 .. Len(ItemsOf(outcome[1])) :
                             HasTitle(ItemsOf(outcome[1])[k])
                             /\ HasLink(ItemsOf(outcome[1])[k])})

\* A row whose Link is a blank href is stored by a run whose last feed also
\* served an element without title or link
C1_Witness ==
    /\ pc = "finished"
    /\ \E r \in Range(store) : r.Link = << Blank >>
    /\ ~IsNone(outcome)
    /\ \E e \in Range(ItemsOf(outcome[1])) : ~(HasTitle(e) /\ HasLink(e))

\* The places of a Batch that hold the first Article of their (Title, Link)
FirstOccurrences(batch) ==
    {i \in 1 .. Len(batch) :
        \A j \in 1 .. i - 1 :
            batch[j].Title # batch[i].Title \/ batch[j].Link # batch[i].Link}

\* C2: remove_duplicates returns the first Article of each (Title, Link) of
\* its input, in the order of the input
C2_FirstOccurrenceKept ==
    pc \in {"once", "twice"} =>
        LET first == FirstOccurrences(all_entries)
        IN  /\ Len(df_cleaned) = Cardinality(first)
            /\ \A i \in first :
                  df_cleaned[Cardinality({j \in first : j <= i})] = all_entries[i]

\* Two sources gave the same (Title, Link), and the Batch had another Article
C2_Witness ==
    /\ pc = "once"
    /\ Len(df_cleaned) = 2
    /\ \E i, j \in 1 .. Len(all_entries) :
          /\ i < j
          /\ SameKey(all_entries[i], all_entries[j])
          /\ all_entries[i].Source # all_entries[j].Source
          /\ all_entries[i] \in Range(df_cleaned)
          /\ all_entries[j] \notin Range(df_cleaned)

\* C3: remove_duplicates of the result of remove_duplicates is that result
C3_DedupIdempotent == pc = "twice" => df_twice = df_cleaned

\* The first application removed two Articles
C3_Witness ==
    /\ pc = "twice"
    /\ Len(all_entries) = 3
    /\ Len(df_cleaned) = 1

RECURSIVE SumOver(_, _)
SumOver(counts, countries) ==
    IF countries = {} THEN 0
    ELSE LET c == CHOOSE c \in countries : TRUE
         IN  counts[c] + SumOver(counts, countries \ {c})

CountsOf(counts, batch) ==
    /\ DOMAIN counts = {a.Country : a \in Range(batch)}
    /\ \A c \in DOMAIN counts :
          counts[c] = Cardinality({i \in 1 .. Len(batch) : batch[i].Country = c})
    /\ SumOver(counts, DOMAIN counts) = Len(batch)

\* C4: the counts of _store_in_db, and those of save_to_csv, give each country
\* its number of Articles of the deduplicated Batch and sum to its size
C4_CountsSumToBatch ==
    /\ pc \in {"csv", "finished", "crashed"} => CountsOf(country_counts, df_cleaned)
    /\ pc = "finished" => CountsOf(value_counts, df_cleaned)

\* A finished run with two countries, one with two Articles
C4_Witness ==
    /\ pc = "finished"
    /\ Cardinality(DOMAIN country_counts) = 2
    /\ \E c \in DOMAIN country_counts : country_counts[c] = 2
    /\ value_counts = country_counts

\* C5: no two rows of news_articles have the same Link
C5_LinkUnique ==
    \A i, j \in 1 .. Len(store) : i # j => store[i].Link # store[j].Link

\* _store_in_db was given an Article whose Link is stored with another Title
C5_Witness ==
    /\ pc = "csv"
    /\ \E a \in Range(df_cleaned) :
          \E r \in Range(store) : r.Link = a.Link /\ r.Title # a.Title

\* C6: a row, once stored, keeps its place and all its values
C6_RowsNeverChange ==
    [][\A i \in 1 .. Len(store) : i <= Len(store') /\ store'[i] = store[i]]_vars

\* _store_in_db was given an Article whose Link is stored, by an earlier run,
\* with another count for the same country
C6_Witness ==
    /\ pc = "csv"
    /\ \E a \in Range(df_cleaned) :
          \E r \in Range(store) :
             /\ r.Link = a.Link
             /\ r.Country = a.Country
             /\ r.NoofArticles # country_counts[a.Country]

\* C7: a run in which every source failed, so that its Batch is empty, does
\* not abort
C7_EmptyRunCompletes ==
    (Len(processed) = Len(RSS_FEEDS) /\ all_failed /\ all_entries = << >>)
        => pc # "crashed"

\* The Articles that the n last places of a Batch hold
LastOf(batch, n) == SubSeq(batch, Len(batch) - n + 1, Len(batch))

\* The Articles a document yields, by Title, Link, Source and Country
Yields(out, f, articles) ==
    LET elems == SelectSeq(ItemsOf(out), LAMBDA e : HasTitle(e) /\ HasLink(e))
    IN  /\ Len(articles) = Len(elems)
        /\ \A k \in 1 .. Len(elems) :
              /\ articles[k].Title = Strip(elems[k].title_tag[1])
              /\ articles[k].Link = LinkOf(elems[k])
              /\ articles[k].Source = RSS_FEEDS[f].source
              /\ articles[k].Country = RSS_FEEDS[f].country

\* C8: each step of the loop of scrape_all_feeds takes the next source, keeps
\* the Batch gathered so far, adds all the Articles of a source that did not
\* fail, and goes on to the source after it; the loop ends with every source
\* processed, in order
C8_FailureIsolated ==
    [][pc = "scrape" =>
        /\ processed' = Append(processed, feedIdx)
        /\ feedIdx' = feedIdx + 1
        /\ pc' = "dedup" <=> feedIdx = Len(RSS_FEEDS)
        /\ Len(all_entries') >= Len(all_entries)
        /\ SubSeq(all_entries', 1, Len(all_entries)) = all_entries
        /\ ~SourceFailed(outcome'[1]) =>
              Yields(outcome'[1], feedIdx,
                     LastOf(all_entries', Len(all_entries') - Len(all_entries)))
    ]_vars

\* The loop is over, its last source failed, and the Batch holds the Articles
\* of the sources before it
C8_Witness ==
    /\ pc = "dedup"
    /\ processed = << 1, 2, 3 >>
    /\ outcome = Some(GetRaises)
    /\ Len(all_entries) = 2
    /\ all_entries[1].Source # all_entries[2].Source

Labels ==
    {"Today", "This Week", "This Month", "1 Year Ago", "2 Years Ago", "Older",
     "Unknown"}

\* C9: calculate_duration returns one of the seven labels, whatever the string
\* and whatever the parsers make of it
C9_DurationTotal == pc = "dated" => duration \in Labels

\* A string that is not empty once cleaned and that no parser accepts
C9_Witness ==
    /\ pc = "dated"
    /\ clean_date_string(published_date) # << >>
    /\ IsNone(dateutil_out)
    /\ strptime_out = AllFail
    /\ duration = "Unknown"

\* Whole days from the parsed timestamp to the instant of evaluation, read in
\* the timestamp's offset when it has one and on the local clock otherwise
ElapsedDays ==
    LET p == pub_date[1]
        reading == IF IsNone(p.off) THEN now + localOffset ELSE now + p.off[1]
    IN  (reading - p.wall) \div TicksPerDay

\* C10: a parsed timestamp is bucketed by its whole elapsed days d: 0 Today,
\* 1..7 This Week, 8..30 This Month, 31..365 1 Year Ago, 366..730 2 Years Ago,
\* more than 730 Older
C10_BucketByDays ==
    (pc = "dated" /\ ~IsNone(pub_date)) =>
        LET d == ElapsedDays
        IN  /\ d = 0 => duration = "Today"
            /\ (1 <= d /\ d <= 7) => duration = "This Week"
            /\ (8 <= d /\ d <= 30) => duration = "This Month"
            /\ (31 <= d /\ d <= 365) => duration = "1 Year Ago"
            /\ (366 <= d /\ d <= 730) => duration = "2 Years Ago"
            /\ d > 730 => duration = "Older"

\* A timestamp with an offset, 884 days old on a machine in another zone
C10_Witness ==
    /\ pc = "dated"
    /\ ~IsNone(pub_date)
    /\ ~IsNone(pub_date[1].off)
    /\ pub_date[1].off[1] # localOffset
    /\ ElapsedDays = 884
    /\ duration = "Older"

\* C11 (as stated): two evaluations of calculate_duration with the same string
\* at the same instant return the same label, whatever else differs between
\* the evaluators
C11_SameLabelAnywhere == pc = "dated twice" => duration2 = duration

\* C11 (amended): two evaluations with the same string at the same instant
\* return the same label when the string was read with a UTC offset, or was
\* not parsed, or the two evaluators have the same local UTC offset
C11_SameLabelSameClock ==
    (/\ pc = "dated twice"
     /\ \/ IsNone(pub_date)
        \/ ~IsNone(pub_date[1].off)
        \/ localOffset2 = localOffset)
        => duration2 = duration

\* A timestamp with an offset gets the same label, Today, from two evaluators
\* whose local clocks read different days
C11_Witness ==
    /\ pc = "dated twice"
    /\ ~IsNone(pub_date)
    /\ ~IsNone(pub_date[1].off)
    /\ (now + localOffset - pub_date[1].wall) \div TicksPerDay
          # (now + localOffset2 - pub_date[1].wall) \div TicksPerDay
    /\ duration = "Today"
    /\ duration2 = "Today"

\* A request for the source got a status other than 200, or failed in transport
FetchFailed(out) ==
    \/ out.probe.kind = "raises"
    \/ out.probe.kind = "ok" /\ out.probe.status # 200
    \/ /\ out.probe = Answered(200)
       /\ \/ out.response = "raises"
          \/ out.response = "ok" /\ out.status # 200

\* C12: a source for which a request of parse_feed, the second included, got
\* a non-success status or failed in transport adds nothing to the Batch, and
\* the loop goes on to the next source
C12_FetchFailureSkipsSource ==
    [][(pc = "scrape" /\ FetchFailed(outcome'[1])) =>
          /\ all_entries' = all_entries
          /\ feedIdx' = feedIdx + 1
      ]_vars

\* C13: a source whose document, or one of whose items, raised an error while
\* it was processed adds no Article to the Batch
C13_NoPartialItems ==
    [][(/\ pc = "scrape"
        /\ \/ outcome'[1].soup = "raises"
           \/ \E e \in Range(ItemsOf(outcome'[1])) : e.raises)
          => all_entries' = all_entries
      ]_vars

\* C17: every request is bounded by the timeout, so that no source whose
\* server stays silent holds the run: the run never blocks in a request
C17_NoRequestBlocks ==
    [][(/\ pc = "scrape"
        /\ \/ outcome'[1].probe.kind = "silent"
           \/ outcome'[1].probe = Answered(200) /\ outcome'[1].response = "silent")
          => /\ pc' # "blocked"
             /\ all_entries' = all_entries
             /\ feedIdx' = feedIdx + 1
      ]_vars

\* The records of a batch that one call inserts into a table: those whose
\* insert does not raise, whose Link the table does not hold and that no
\* earlier record of the batch, bar those that raised, has inserted
NewRecords(table, batch, err) ==
    {k \in 1 .. Len(batch) :
        /\ k \notin err
        /\ \A i \in 1 .. Len(table) : table[i].Link # batch[k].Link
        /\ \A j \in 1 .. k - 1 : j \in err \/ batch[j].Link # batch[k].Link}

\* C14: a call of _store_in_db does not abort; it leaves the stored rows as
\* they are and adds, in the order of the batch, one row for each record whose
\* insert did not raise and whose Link was not stored yet, and no other row;
\* the rows are in the table when the call is over
C14_RecordSkippedAlone ==
    [][pc = "store" =>
        LET new == NewRecords(store, df_cleaned, sqlite_error')
        IN  /\ pc' = "csv"
            /\ Len(store') = Len(store) + Cardinality(new)
            /\ SubSeq(store', 1, Len(store)) = store
            /\ \A k \in new :
                  LET r == store'[Len(store) + Cardinality({j \in new : j <= k})]
                  IN  /\ r.Link = df_cleaned[k].Link
                      /\ r.Title = df_cleaned[k].Title
                      /\ r.Country = df_cleaned[k].Country
                      /\ r.NoofArticles =
                            Cardinality({i \in 1 .. Len(df_cleaned) :
                               df_cleaned[i].Country = df_cleaned[k].Country})
      ]_vars

\* The insert of the first of three records raised; the second, which has the
\* Link of the first, and the third are stored
C14_Witness ==
    /\ pc = "csv"
    /\ sqlite_error = {1}
    /\ Len(df_cleaned) = 3
    /\ df_cleaned[2].Link = df_cleaned[1].Link
    /\ Len(store) = 2
    /\ store[1].Title = df_cleaned[2].Title
    /\ store[2].Link = df_cleaned[3].Link

\* The rows of a table that hold a Link
RowsWith(table, link) == {i \in 1 .. Len(table) : table[i].Link = link}

AllDone == \A w \in DOMAIN writers : writers[w].done

\* C15 (as stated): with several runs writing at the same time no two rows
\* have the same Link, and once the writers have completed every Link one of
\* them offered is stored exactly once
C15_OfferedStoredOnce ==
    pc = "writers" =>
        /\ \A i, j \in 1 .. Len(store) : i # j => store[i].Link # store[j].Link
        /\ AllDone =>
              \A w \in DOMAIN writers :
                 \A k \in 1 .. Len(writers[w].entries) :
                    Cardinality(RowsWith(store, writers[w].entries[k].Link)) = 1

\* C15 (amended): no two rows have the same Link, whether committed or in the
\* open transaction of the writer that holds the lock; and once the writers
\* have completed, every Link offered in an insert that did not raise is stored
\* exactly once, and every stored Link was offered by some writer
C15_NoDuplicateLink ==
    pc = "writers" =>
        /\ \A w \in DOMAIN writers :
              LET view == store \o writers[w].txn
              IN  \A i, j \in 1 .. Len(view) :
                     i # j => view[i].Link # view[j].Link
        /\ AllDone =>
              /\ \A w \in DOMAIN writers :
                    \A k \in 1 .. Len(writers[w].entries) :
                       k \notin writers[w].raised =>
                          Cardinality(RowsWith(store,
                                        writers[w].entries[k].Link)) = 1
              /\ \A i \in 1 .. Len(store) :
                    \E w \in DOMAIN writers :
                       \E k \in 1 .. Len(writers[w].entries) :
                          writers[w].entries[k].Link = store[i].Link

\* Two writers offered the same Link; the first insert of the second met the
\* lock of the first and raised, its second insert came after the commit of
\* the first; the Link is stored once, with the fields of the first writer
C15_Witness ==
    /\ pc = "writers"
    /\ AllDone
    /\ writers[2].raised = {1}
    /\ Len(writers[2].entries) = 2
    /\ writers[1].raised = {}
    /\ \E k \in 1 .. Len(writers[1].entries) :
          /\ writers[1].entries[k].Link = writers[2].entries[2].Link
          /\ writers[1].entries[k].Title # writers[2].entries[2].Title
          /\ \E i \in 1 .. Len(store) :
                /\ store[i].Link = writers[1].entries[k].Link
                /\ store[i].Title = writers[1].entries[k].Title

\* C16: when a run has finished, news_data.csv holds one row for each Article
\* of the run's deduplicated Batch, in its order and with its values, and no
\* other row; the count of a row is the number of Articles of its country in
\* that Batch, which is also the count _store_in_db computed in the run
C16_SnapshotOfThisRun ==
    pc = "finished" =>
        /\ Len(csv) = Len(df_cleaned)
        /\ \A i \in 1 .. Len(csv) :
              /\ csv[i].Title = df_cleaned[i].Title
              /\ csv[i].Summary = df_cleaned[i].Summary
              /\ csv[i].Published = df_cleaned[i].Published
              /\ csv[i].Link = df_cleaned[i].Link
              /\ csv[i].Source = df_cleaned[i].Source
              /\ csv[i].Country = df_cleaned[i].Country
              /\ csv[i].Language = df_cleaned[i].Language
              /\ csv[i].Duration = df_cleaned[i].Duration
              /\ csv[i].NoOfArticles =
                    Cardinality({j \in 1 .. Len(df_cleaned) :
                                    df_cleaned[j].Country = csv[i].Country})
              /\ csv[i].NoOfArticles = country_counts[csv[i].Country]

\* A later run has finished: the table holds a Link of an earlier run that
\* the file does not hold, and the file has the two Articles of this run,
\* counted two for their country
C16_Witness ==
    /\ pc = "finished"
    /\ Len(csv) = 2
    /\ csv[1].NoOfArticles = 2
    /\ \E r \in Range(store) :
          /\ r.NoofArticles = 1
          /\ \A i \in 1 .. Len(csv) : csv[i].Link # r.Link

\* A string of which cleaning leaves nothing: blanks, listed timezone
\* abbreviations, and a weekday token at its very start
CleansToNothing(toks) ==
    \A i \in 1 .. Len(toks) :
        \/ toks[i] = Blank
        \/ toks[i] \in TzAbbreviations
        \/ i = 1 /\ toks[i] \in WeekdayTokens

AgeLabels ==
    {"Today", "This Week", "This Month", "1 Year Ago", "2 Years Ago", "Older"}

\* C18: calculate_duration returns Unknown exactly when the string is empty,
\* or cleaning leaves nothing of it, or parser.parse and all eleven patterns
\* fail on it; otherwise it returns an age label, that of the timestamp of
\* parser.parse or, when that failed, of the first pattern that succeeds
C18_UnknownExactly ==
    pc = "dated" =>
        LET unparsed == /\ IsNone(dateutil_out)
                        /\ \A k \in Formats : IsNone(strptime_out[k])
        IN  /\ duration = "Unknown" <=>
                  (published_date = << >> \/ CleansToNothing(published_date)
                   \/ unparsed)
            /\ duration # "Unknown" => duration \in AgeLabels
            /\ (~CleansToNothing(published_date) /\ ~unparsed) =>
                  pub_date =
                     IF ~IsNone(dateutil_out) THEN dateutil_out
                     ELSE strptime_out[CHOOSE k \in Formats :
                             /\ ~IsNone(strptime_out[k])
                             /\ \A j \in 1 .. k - 1 : IsNone(strptime_out[j])]

\* parser.parse failed and two patterns match the string; the label is that
\* of the timestamp the earlier of the two gives
C18_Witness ==
    /\ pc = "dated"
    /\ IsNone(dateutil_out)
    /\ Cardinality({k \in Formats : ~IsNone(strptime_out[k])}) = 2
    /\ pub_date = strptime_out[5]
    /\ duration = "Today"

\* The elements of a list that come before the first one whose extraction
\* raises
BeforeError(elems) ==
    SubSeq(elems, 1,
           Cardinality({k \in 1 .. Len(elems) :
                           \A j \in 1 .. k : ~elems[j].raises}))

\* The Articles are those of the elements of the list that have a title and a
\* link, one for one and in the order of the list
BuiltFrom(elems, f, articles) ==
    LET kept == SelectSeq(elems, LAMBDA e : HasTitle(e) /\ HasLink(e))
    IN  /\ Len(articles) = Len(kept)
        /\ \A k \in 1 .. Len(kept) :
              /\ articles[k].Title = Strip(kept[k].title_tag[1])
              /\ articles[k].Link =
                    IF IsNone(kept[k].link_tag[1].href)
                    THEN Strip(kept[k].link_tag[1].text)
                    ELSE kept[k].link_tag[1].href[1]
              /\ articles[k].Source = RSS_FEEDS[f].source
              /\ articles[k].Country = RSS_FEEDS[f].country

\* The place of a source in the configured list
FeedOf(source) == CHOOSE f \in 1 .. Len(RSS_FEEDS) : RSS_FEEDS[f].source = source

\* C19: the Articles a source adds are built from the "item" elements of its
\* document when it has any, and from its "entry" elements otherwise, in the
\* order of the document; they are added at the end of the Batch, so that the
\* Batch holds the outputs of the sources in the order of the configuration
C19_ItemsBeforeEntries ==
    [][(pc = "scrape" /\ pc' # "blocked") =>
        LET out == outcome'[1]
            chosen == IF Len(out.item) >= 1 THEN out.item ELSE out.entry
            added == SubSeq(all_entries', Len(all_entries) + 1, Len(all_entries'))
        IN  /\ SubSeq(all_entries', 1, Len(all_entries)) = all_entries
            /\ BuiltFrom(BeforeError(chosen), feedIdx, added)
            /\ \A i, j \in 1 .. Len(all_entries') :
                  i < j => FeedOf(all_entries'[i].Source)
                              <= FeedOf(all_entries'[j].Source)
      ]_vars

\* The second source served a document with an "item" and another "entry"
\* element, each with a title and a link; the Batch holds the Article of the
\* "item" alone
C19_Witness ==
    /\ pc = "scrape"
    /\ processed = << 1, 2 >>
    /\ Len(outcome[1].item) = 1
    /\ Len(outcome[1].entry) = 1
    /\ HasTitle(outcome[1].entry[1]) /\ HasLink(outcome[1].entry[1])
    /\ outcome[1].entry[1] # outcome[1].item[1]
    /\ Len(all_entries) = 1
    /\ all_entries[1].Source = RSS_FEEDS[2].source
    /\ all_entries[1].Title = Strip(outcome[1].item[1].title_tag[1])

\* C20: a parsed timestamp that lies in the future of the instant of
\* evaluation, by half a day or by years, is labelled This Week
C20_FutureIsThisWeek ==
    (pc = "dated" /\ ~IsNone(pub_date) /\ ElapsedDays < 0)
        => duration = "This Week"

\* A timestamp more than two years ahead of the instant of evaluation
C20_Witness ==
    /\ pc = "dated"
    /\ ~IsNone(pub_date)
    /\ ElapsedDays < -730
    /\ duration = "This Week"

\* The Links that several Articles of a deduplicated Batch have
SharedLinks(batch) ==
    {batch[i].Link : i \in {i \in 1 .. Len(batch) :
        \E j \in 1 .. Len(batch) : j # i /\ batch[j].Link = batch[i].Link}}

\* The places of a Batch that hold a Link
PlacesOf(batch, link) == {i \in 1 .. Len(batch) : batch[i].Link = link}

\* The row is that of an Article, with the count of its country in the Batch
RowOf(r, a, batch) ==
    /\ r.Title = a.Title /\ r.Summary = a.Summary /\ r.Published = a.Published
    /\ r.Link = a.Link /\ r.Source = a.Source /\ r.Country = a.Country
    /\ r.Language = a.Language /\ r.Duration = a.Duration
    /\ r.NoofArticles =
          Cardinality({i \in 1 .. Len(batch) : batch[i].Country = a.Country})

\* C21 (as stated): when the deduplicated Batch holds several Articles with
\* one Link, _store_in_db counts them all, and leaves exactly one row for the
\* Link, which, if the Link was not stored before, is that of the first of
\* them in the Batch, with the count of its country
C21_FirstOfLinkStored ==
    [][pc = "store" =>
        /\ CountsOf(country_counts', df_cleaned)
        /\ \A link \in SharedLinks(df_cleaned) :
              LET first == CHOOSE i \in PlacesOf(df_cleaned, link) :
                              \A j \in PlacesOf(df_cleaned, link) : i <= j
              IN  /\ Cardinality(RowsWith(store', link)) = 1
                  /\ RowsWith(store, link) = {} =>
                        \A i \in RowsWith(store', link) :
                           RowOf(store'[i], df_cleaned[first], df_cleaned)
      ]_vars

\* C21 (amended): the Articles are all counted; the call leaves at most one
\* row for the Link, and one when the Link was stored before or the insert of
\* one of the Articles did not raise; if the Link was not stored before, the
\* row is that of the first of them whose insert did not raise, with the count
\* of its country; the call then adds fewer rows than the Batch has Articles
C21_FirstInsertedOfLinkStored ==
    [][pc = "store" =>
        /\ CountsOf(country_counts', df_cleaned)
        /\ \A link \in SharedLinks(df_cleaned) :
              LET tried == PlacesOf(df_cleaned, link) \ sqlite_error'
              IN  /\ Cardinality(RowsWith(store', link)) <= 1
                  /\ (RowsWith(store, link) # {} \/ tried # {}) <=>
                        RowsWith(store', link) # {}
                  /\ (RowsWith(store, link) = {} /\ tried # {}) =>
                        LET first == CHOOSE i \in tried : \A j \in tried : i <= j
                        IN  \A i \in RowsWith(store', link) :
                               RowOf(store'[i], df_cleaned[first], df_cleaned)
                  /\ Len(store') - Len(store) < Len(df_cleaned)
      ]_vars

\* The first run stored one row for two Articles with one Link and two
\* Titles, both counted for their country; the row is that of the first
C21_Witness ==
    /\ pc = "csv"
    /\ now = NowStart
    /\ sqlite_error = {}
    /\ Len(df_cleaned) = 2
    /\ df_cleaned[1].Link = df_cleaned[2].Link
    /\ df_cleaned[1].Title # df_cleaned[2].Title
    /\ country_counts[df_cleaned[1].Country] = 2
    /\ Len(store) = 1
    /\ RowOf(store[1], df_cleaned[1], df_cleaned)

====
